---------------------------- MODULE Spec2Model ----------------------------
(***************************************************************************)
(* Model of the LiveVoiceScreen component (real-time voice session):       *)
(* connection lifecycle, capture pipeline, playback scheduler, teardown.   *)
(*                                                                         *)
(* Time is counted in ticks of 25 ms, so the 0.05 s lead time of playAudio *)
(* is 2 ticks and frame durations are whole numbers of ticks.              *)
(*                                                                         *)
(* Every connect() call is numbered 1, 2, ...; the AudioContext it creates,*)
(* the live session it asks for and the microphone request issued by that  *)
(* session's onopen all carry the number of the call.  A ref holding 0 is  *)
(* a ref holding null.                                                     *)
(*                                                                         *)
(* The specifications share the handlers: Spec (every handler, retries,   *)
(* little audio), SpecLifecycle (connection and teardown, no messages),    *)
(* SpecPlayback (the scheduler of one established session) and SpecSession *)
(* (every handler over a run short enough that no clock advances).         *)
(* SpecCodec follows one sample through the PCM16 encoder of the capture   *)
(* callback and the decoder of playAudio, in exact arithmetic: the sample  *)
(* n stands for the number n / Grid.                                       *)
(***************************************************************************)
EXTENDS Integers, Sequences, FiniteSets, TLC

\* ---- bounds of the model ------------------------------------------------
\* The lifecycle specification (Spec) explores retries with little audio;
\* the playback specification (SpecPlayback) explores the scheduler.
MaxSessions  == 2     \* Spec: connect() calls (first start plus retries)
RunSessions  == 1     \* SpecSession: connect() calls
LifeUnits    == 1     \* Spec: audio frames enqueued over a run
LifeDur      == 1     \* Spec: longest frame, in ticks
LifeClock    == 1     \* Spec: largest reading of an AudioContext clock
MaxUnits     == 4     \* SpecPlayback: audio frames enqueued over a run
MaxDur       == 2     \* SpecPlayback: longest frame, in ticks
MaxClock     == 5     \* SpecPlayback: largest reading of an AudioContext clock
Grid         == 100   \* SpecCodec: a sample is a multiple of 1/Grid
Overdrive    == 2     \* SpecCodec: samples range over [-Overdrive, Overdrive]

\* ---- program constants --------------------------------------------------
LeadTime == 2         \* 0.05 s, in ticks of 25 ms
NegScale == 32768     \* 0x8000
PosScale == 32767     \* 0x7FFF

Attempts  == 1..MaxSessions

\* An inbound LiveServerMessage: audio = 0 when the message carries no
\* inlineData (or an empty string), -1 when the data does not decode
\* (invalid base64 or an odd number of bytes), d > 0 for a frame of d ticks.
Messages(maxDur) ==
  [audio : (-1)..maxDur, interrupted : BOOLEAN, turnComplete : BOOLEAN]
WellFormed(maxDur) == {m \in Messages(maxDur) : m.audio >= 0}

VARIABLES
  status,            \* useState status
  isSpeaking,        \* useState isSpeaking
  screen,            \* App's screen state: "voice" while LiveVoiceScreen is shown
  mounted,           \* LiveVoiceScreen is mounted (its state setters still act)
  hasKey,            \* process.env.GEMINI_API_KEY || process.env.API_KEY is set
  nConn,             \* number of connect() calls made so far
  sessionRef, audioContextRef, processorRef, sourceRef, streamRef,
  nextStartTimeRef,  \* the playback cursor
  activeSourcesRef,  \* set of unit indices (the array of tracked sources)
  ctxState, ctxTime, \* per AudioContext: "none" | "running" | "closed", currentTime
  conn,              \* per connect() call: position of the async function
  ws,                \* per live session: state of its socket
  mic,               \* per session: state of the getUserMedia request of its onopen
  streamLive,        \* per microphone stream: its tracks are live
  pipe,              \* per capture pipeline: context and routing of its nodes
  units,             \* every AudioBufferSourceNode created by playAudio
  afterCancel,       \* no unit was enqueued since the last stopAudioPlayback
  tornDown,          \* disconnect() has run
  log,               \* what went wrong so far: errors that escaped a handler,
                     \* promises rejected with nobody handling them
  codec              \* a sample on its way through the PCM16 conversions

vars == <<status, isSpeaking, screen, mounted, hasKey, nConn, sessionRef,
          audioContextRef, processorRef, sourceRef, streamRef, nextStartTimeRef,
          activeSourcesRef, ctxState, ctxTime, conn, ws, mic, streamLive, pipe,
          units, afterCancel, tornDown, log, codec>>

\* The state of the component proper.
componentVars == <<status, isSpeaking, screen, mounted, hasKey, nConn, sessionRef,
                   audioContextRef, processorRef, sourceRef, streamRef,
                   nextStartTimeRef, activeSourcesRef, ctxState, ctxTime, conn, ws,
                   mic, streamLive, pipe, units, afterCancel, tornDown, log>>

refVars   == <<sessionRef, audioContextRef, processorRef, sourceRef, streamRef>>
uiVars    == <<status, isSpeaking, screen, mounted>>
playVars  == <<nextStartTimeRef, activeSourcesRef, units, afterCancel>>
capVars   == <<mic, streamLive, pipe>>

NoPipe == [ctx |-> 0, connected |-> FALSE]

\* No sample is being followed through the conversions.
NoSample == [stage |-> "off", x |-> 0, pcm |-> 0, num |-> 0, den |-> 1]

\* A state setter of an unmounted component does nothing.
SetState(current, value) == IF mounted THEN value ELSE current

Init ==
  /\ status = "idle"
  /\ isSpeaking = FALSE
  /\ screen = "voice"
  /\ mounted = TRUE
  /\ hasKey \in BOOLEAN
  /\ nConn = 0
  /\ sessionRef = 0 /\ audioContextRef = 0 /\ processorRef = 0
  /\ sourceRef = 0 /\ streamRef = 0
  /\ nextStartTimeRef = 0
  /\ activeSourcesRef = {}
  /\ ctxState = [k \in Attempts |-> "none"]
  /\ ctxTime = [k \in Attempts |-> 0]
  /\ conn = [k \in Attempts |-> "none"]
  /\ ws = [k \in Attempts |-> "none"]
  /\ mic = [k \in Attempts |-> "none"]
  /\ streamLive = [k \in Attempts |-> FALSE]
  /\ pipe = [k \in Attempts |-> NoPipe]
  /\ units = <<>>
  /\ afterCancel = FALSE
  /\ tornDown = FALSE
  /\ log = {}
  /\ codec = NoSample

\* ---- connect(), up to its await of the session promise -------------------
\* The click handler of the orb calls connect() only in idle, error or
\* disconnected.  The context is taken to be created running (the call is
\* made inside a user gesture), so the resume() branch is not entered.
Start(maxSessions) ==
  /\ screen = "voice" /\ mounted
  /\ status \in {"idle", "error", "disconnected"}
  /\ nConn < maxSessions
  /\ LET k == nConn + 1 IN
     /\ nConn' = k
     /\ ctxState' = [ctxState EXCEPT ![k] = "running"]
     /\ audioContextRef' = k
     /\ IF hasKey
          THEN /\ status' = "connecting"
               /\ conn' = [conn EXCEPT ![k] = "pending"]
               /\ ws' = [ws EXCEPT ![k] = "connecting"]
          ELSE /\ status' = "error"
               /\ conn' = [conn EXCEPT ![k] = "noKey"]
               /\ ws' = ws
  /\ UNCHANGED <<isSpeaking, screen, mounted, hasKey, codec, sessionRef, processorRef,
                 sourceRef, streamRef, ctxTime, tornDown, log>>
  /\ UNCHANGED playVars
  /\ UNCHANGED capVars

\* sessionRef.current = await sessionPromise
SessionResolved(k) ==
  /\ conn[k] = "pending"
  /\ ws[k] \in {"connecting", "open"}
  /\ conn' = [conn EXCEPT ![k] = "resolved"]
  /\ sessionRef' = k
  /\ UNCHANGED <<audioContextRef, processorRef, sourceRef, streamRef, hasKey, codec,
                 nConn, ctxState, ctxTime, ws, tornDown, log>>
  /\ UNCHANGED uiVars
  /\ UNCHANGED playVars
  /\ UNCHANGED capVars

\* The session promise rejects before the socket opened: catch, setStatus('error').
ConnectFailed(k) ==
  /\ conn[k] = "pending"
  /\ ws[k] = "connecting"
  /\ conn' = [conn EXCEPT ![k] = "rejected"]
  /\ ws' = [ws EXCEPT ![k] = "closed"]
  /\ status' = SetState(status, "error")
  /\ UNCHANGED <<isSpeaking, screen, mounted, hasKey, codec, nConn, ctxState, ctxTime,
                 tornDown, log>>
  /\ UNCHANGED refVars
  /\ UNCHANGED playVars
  /\ UNCHANGED capVars

\* ---- callbacks of the live session ---------------------------------------
\* startRecording(), up to its await of getUserMedia: it returns at once
\* unless both the audio context and the session handle are already set.
StartsRecording == audioContextRef # 0 /\ sessionRef # 0

\* onopen: setStatus('connected'); startRecording()
RemoteOpen(k) ==
  /\ ws[k] = "connecting"
  /\ ws' = [ws EXCEPT ![k] = "open"]
  /\ status' = SetState(status, "connected")
  /\ mic' = [mic EXCEPT ![k] = IF StartsRecording THEN "pending" ELSE "skipped"]
  /\ UNCHANGED <<isSpeaking, screen, mounted, hasKey, codec, nConn, ctxState, ctxTime,
                 conn, streamLive, pipe, tornDown, log>>
  /\ UNCHANGED refVars
  /\ UNCHANGED playVars

\* onclose: setStatus('disconnected')
RemoteClose(k) ==
  /\ ws[k] \in {"open", "errored"}
  /\ ws' = [ws EXCEPT ![k] = "closed"]
  /\ status' = SetState(status, "disconnected")
  /\ UNCHANGED <<isSpeaking, screen, mounted, hasKey, codec, nConn, ctxState, ctxTime,
                 conn, tornDown, log>>
  /\ UNCHANGED refVars
  /\ UNCHANGED playVars
  /\ UNCHANGED capVars

\* onerror: setStatus('error').  The socket that reported the error is
\* closed by the transport afterwards (RemoteClose).
RemoteError(k) ==
  /\ ws[k] \in {"connecting", "open"}
  /\ ws' = [ws EXCEPT ![k] = "errored"]
  /\ status' = SetState(status, "error")
  /\ UNCHANGED <<isSpeaking, screen, mounted, hasKey, codec, nConn, ctxState, ctxTime,
                 conn, tornDown, log>>
  /\ UNCHANGED refVars
  /\ UNCHANGED playVars
  /\ UNCHANGED capVars

\* ---- startRecording(), after getUserMedia settles -------------------------
\* The stream is stored, then the nodes are created on whatever context
\* audioContextRef holds by now.  Creating a stream source on a closed
\* context throws on some platforms and not on others (fails = TRUE/FALSE).
MicGranted(k, fails) ==
  /\ mic[k] = "pending"
  /\ fails => ctxState[audioContextRef] = "closed"
  /\ streamRef' = k
  /\ streamLive' = [streamLive EXCEPT ![k] = TRUE]
  /\ IF fails
       THEN /\ mic' = [mic EXCEPT ![k] = "failed"]
            /\ status' = SetState(status, "error")
            /\ UNCHANGED <<sourceRef, processorRef, pipe>>
       ELSE /\ mic' = [mic EXCEPT ![k] = "granted"]
            /\ sourceRef' = k
            /\ processorRef' = k
            /\ pipe' = [pipe EXCEPT ![k] = [ctx |-> audioContextRef, connected |-> TRUE]]
            /\ status' = status
  /\ UNCHANGED <<isSpeaking, screen, mounted, hasKey, codec, nConn, sessionRef,
                 audioContextRef, ctxState, ctxTime, conn, ws, tornDown, log>>
  /\ UNCHANGED playVars

\* getUserMedia rejects: catch, setStatus('error').
MicDenied(k) ==
  /\ mic[k] = "pending"
  /\ mic' = [mic EXCEPT ![k] = "denied"]
  /\ status' = SetState(status, "error")
  /\ UNCHANGED <<isSpeaking, screen, mounted, hasKey, codec, nConn, ctxState, ctxTime,
                 conn, ws, streamLive, pipe, tornDown, log>>
  /\ UNCHANGED refVars
  /\ UNCHANGED playVars

\* processor.onaudioprocess of pipeline p: fires while the processor is
\* routed to the destination of a running context.  It sends through
\* whatever sessionRef holds; with sessionRef null the call throws.
CaptureFrame(p) ==
  /\ pipe[p].connected
  /\ ctxState[pipe[p].ctx] = "running"
  /\ log' = log \cup (IF sessionRef = 0 THEN {"frame: send on null session"} ELSE {})
               \cup (IF tornDown THEN {"frame: after teardown"} ELSE {})
  /\ UNCHANGED <<hasKey, codec, nConn, ctxState, ctxTime, conn, ws, tornDown>>
  /\ UNCHANGED uiVars
  /\ UNCHANGED refVars
  /\ UNCHANGED playVars
  /\ UNCHANGED capVars

\* ---- the device clock ------------------------------------------------------
\* Every running context advances by one tick.
Tick(maxClock) ==
  /\ \E c \in Attempts : ctxState[c] = "running"
  /\ \A c \in Attempts : ctxState[c] = "running" => ctxTime[c] < maxClock
  /\ ctxTime' = [c \in Attempts |->
                   IF ctxState[c] = "running" THEN ctxTime[c] + 1 ELSE ctxTime[c]]
  /\ UNCHANGED <<hasKey, codec, nConn, ctxState, conn, ws, tornDown, log>>
  /\ UNCHANGED uiVars
  /\ UNCHANGED refVars
  /\ UNCHANGED playVars
  /\ UNCHANGED capVars

\* ---- playback scheduler ------------------------------------------------------
\* Mutant of StartTime: the lead time is added to every start, as if the
\* cursor had always fallen behind.
StartTimeAlwaysLead(cursor, now) ==
  (IF cursor < now THEN now ELSE cursor) + LeadTime

\* Mutant of StartTime: a late unit starts at the clock reading, with no lead.
StartTimeNoLead(cursor, now) == IF cursor < now THEN now ELSE cursor

\* Mutant of StartTime: the unit starts at the cursor even when the clock
\* has overtaken it.
StartTimeStale(cursor, now) == cursor

\* playAudio, lines 210-213: the start time of the next unit.
StartTime(cursor, now) == IF cursor < now THEN now + LeadTime ELSE cursor

\* Mutant of CursorAfter: the cursor is not advanced by the duration.
CursorNotAdvanced(start, dur) == start

\* Mutant of CursorAfter: the duration is subtracted from the cursor.
CursorRewound(start, dur) == start - dur

\* playAudio, line 216: the cursor after a unit of dur ticks starting at start.
CursorAfter(start, dur) == start + dur

\* Mutant of CursorReset: the cursor is left where it was.
CursorKept(cursor, ctx) == cursor

\* stopAudioPlayback, lines 230-232: the cursor after a cancel.
CursorReset(cursor, ctx) == IF ctx # 0 THEN ctxTime[ctx] ELSE cursor

\* stopAudioPlayback, lines 221-228: the sources it stops, and what it tracks
\* afterwards.
StoppedBy(active) == active

\* Mutant of ActiveAfterStop: the tracked sources are stopped but the array
\* is not replaced by an empty one.
ActiveNotCleared(active) == active

ActiveAfterStop(active) == {}

\* The record kept of a source node: its context, start time and duration,
\* whether the clock had overtaken the cursor when it was enqueued (late),
\* whether stop() was called on it, whether its onended was delivered, and
\* whether it was enqueued after the last stopAudioPlayback (cur).  Start,
\* duration and late are only kept for the units of the current batch.
Unit(ctx, start, dur, late) ==
  [ctx |-> ctx, start |-> start, dur |-> dur, late |-> late, cur |-> TRUE,
   stopped |-> FALSE, ended |-> FALSE]

Discarded(unit, stop) ==
  [unit EXCEPT !.start = 0, !.dur = 0, !.late = FALSE, !.cur = FALSE,
               !.stopped = unit.stopped \/ stop]

\* Mutant of CancelsPlayback: the end of a turn stops the playback too.
CancelsOnTurnComplete(m) == m.interrupted \/ m.turnComplete

\* onmessage, lines 81-83: the message makes the handler call
\* stopAudioPlayback.
CancelsPlayback(m) == m.interrupted

\* onmessage(message).  playAudio runs first; if the data does not decode,
\* atob or the Int16Array constructor throws and the error leaves the
\* handler before the flags of the message are looked at.
OnMessage(k, m, maxUnits) ==
  /\ ws[k] = "open"
  /\ m.audio > 0 => Len(units) < maxUnits
  /\ LET ctx     == audioContextRef
         now     == IF ctx # 0 THEN ctxTime[ctx] ELSE 0
         decodes == m.audio # 0 /\ ctx # 0
         throws  == decodes /\ m.audio = -1
         plays   == decodes /\ m.audio > 0
         start   == StartTime(nextStartTimeRef, now)
         n       == Len(units) + 1
         units1  == IF plays THEN Append(units, Unit(ctx, start, m.audio, nextStartTimeRef < now))
                             ELSE units
         active1 == IF plays THEN activeSourcesRef \cup {n} ELSE activeSourcesRef
         cursor1 == IF plays THEN CursorAfter(start, m.audio) ELSE nextStartTimeRef
         speak1  == IF m.audio # 0 THEN SetState(isSpeaking, TRUE) ELSE isSpeaking
         speak2  == IF m.interrupted THEN SetState(speak1, FALSE) ELSE speak1
         speak3  == IF m.turnComplete THEN SetState(speak2, FALSE) ELSE speak2
     IN IF throws
          THEN /\ log' = log \cup {"message: playAudio threw"}
               /\ UNCHANGED <<isSpeaking, nextStartTimeRef, activeSourcesRef, units,
                              afterCancel>>
          ELSE /\ log' = log
               /\ isSpeaking' = speak3
               /\ IF CancelsPlayback(m)
                    THEN /\ units' = [u \in DOMAIN units1 |->
                                        Discarded(units1[u], u \in StoppedBy(active1))]
                         /\ activeSourcesRef' = ActiveAfterStop(active1)
                         /\ nextStartTimeRef' = CursorReset(cursor1, ctx)
                         /\ afterCancel' = TRUE
                    ELSE /\ units' = units1
                         /\ activeSourcesRef' = active1
                         /\ nextStartTimeRef' = cursor1
                         /\ afterCancel' = (afterCancel /\ ~plays)
  /\ UNCHANGED <<status, screen, mounted, hasKey, codec, nConn, ctxState, ctxTime, conn,
                 ws, tornDown>>
  /\ UNCHANGED refVars
  /\ UNCHANGED capVars

\* source.onended of unit u: delivered by a running context once the unit
\* has played to its end or has been stopped.
OnEnded(u) ==
  /\ u \in DOMAIN units
  /\ ~units[u].ended
  /\ ctxState[units[u].ctx] = "running"
  /\ units[u].stopped \/ ctxTime[units[u].ctx] >= units[u].start + units[u].dur
  /\ units' = [units EXCEPT ![u].ended = TRUE]
  /\ activeSourcesRef' = activeSourcesRef \ {u}
  /\ UNCHANGED <<nextStartTimeRef, afterCancel, hasKey, codec, nConn, ctxState,
                 ctxTime, conn, ws, tornDown, log>>
  /\ UNCHANGED uiVars
  /\ UNCHANGED refVars
  /\ UNCHANGED capVars

\* ---- teardown ------------------------------------------------------------------
\* Mutant of StreamGuard: the tracks are stopped without looking at the ref.
StreamUnguarded == TRUE

\* The guards of disconnect(), lines 239, 243 and 246.
ProcessorGuard == processorRef # 0 /\ sourceRef # 0
StreamGuard == streamRef # 0
ContextGuard   == audioContextRef # 0

\* The statement of disconnect() that throws, if any: a guarded block that
\* dereferences a null ref (2: nodes, 3: stream, 4: context; 0: none).
DisconnectThrowsAt ==
  IF ProcessorGuard /\ (processorRef = 0 \/ sourceRef = 0) THEN 2
  ELSE IF StreamGuard /\ streamRef = 0 THEN 3
  ELSE IF ContextGuard /\ audioContextRef = 0 THEN 4
  ELSE 0

\* disconnect(): the statements before the one that throws take effect.
\* close() on a context that is already closed returns a rejected promise,
\* which nothing handles.
DisconnectBody ==
  LET t       == DisconnectThrowsAt
      reached(i) == t = 0 \/ i < t
  IN /\ sessionRef' = 0
     /\ pipe' = IF reached(2) /\ ProcessorGuard
                  THEN [pipe EXCEPT ![processorRef].connected = FALSE] ELSE pipe
     /\ streamLive' = IF reached(3) /\ StreamGuard
                        THEN [streamLive EXCEPT ![streamRef] = FALSE] ELSE streamLive
     /\ ctxState' = IF reached(4) /\ ContextGuard
                      THEN [ctxState EXCEPT ![audioContextRef] = "closed"] ELSE ctxState
     /\ screen' = IF t = 0 THEN "welcome" ELSE screen
     /\ log' = log \cup (IF t # 0 THEN {"disconnect: threw"} ELSE {})
                   \cup (IF reached(4) /\ ContextGuard
                            /\ ctxState[audioContextRef] = "closed"
                           THEN {"disconnect: close() rejected"} ELSE {})
     /\ tornDown' = TRUE
     /\ UNCHANGED <<status, isSpeaking, hasKey, codec, nConn, audioContextRef, processorRef,
                    sourceRef, streamRef, ctxTime, conn, ws, mic>>
     /\ UNCHANGED playVars

\* The end button: onClick = disconnect.  onEnd() makes App show the
\* welcome screen.
Disconnect ==
  /\ screen = "voice" /\ mounted
  /\ DisconnectBody
  /\ mounted' = mounted

\* App no longer renders LiveVoiceScreen: the effect cleanup runs
\* disconnect() once more.
Unmount ==
  /\ screen = "welcome" /\ mounted
  /\ DisconnectBody
  /\ mounted' = FALSE

\* ---- specifications ----------------------------------------------------------------
\* Lifecycle: every handler, retries, little audio.
Next ==
  \/ Start(MaxSessions)
  \/ \E k \in Attempts : SessionResolved(k)
  \/ \E k \in Attempts : ConnectFailed(k)
  \/ \E k \in Attempts : RemoteOpen(k)
  \/ \E k \in Attempts : RemoteClose(k)
  \/ \E k \in Attempts : RemoteError(k)
  \/ \E k \in Attempts, fails \in BOOLEAN : MicGranted(k, fails)
  \/ \E k \in Attempts : MicDenied(k)
  \/ \E p \in Attempts : CaptureFrame(p)
  \/ \E k \in Attempts, m \in Messages(LifeDur) : OnMessage(k, m, LifeUnits)
  \/ \E u \in 1..LifeUnits : OnEnded(u)
  \/ Tick(LifeClock)
  \/ Disconnect
  \/ Unmount

Spec == Init /\ [][Next]_vars

\* Connection lifecycle and teardown alone: the remote end sends no message,
\* so nothing is ever enqueued and the clock readings do not matter.
NextLifecycle ==
  \/ Start(MaxSessions)
  \/ \E k \in Attempts : SessionResolved(k)
  \/ \E k \in Attempts : ConnectFailed(k)
  \/ \E k \in Attempts : RemoteOpen(k)
  \/ \E k \in Attempts : RemoteClose(k)
  \/ \E k \in Attempts : RemoteError(k)
  \/ \E k \in Attempts, fails \in BOOLEAN : MicGranted(k, fails)
  \/ \E k \in Attempts : MicDenied(k)
  \/ \E p \in Attempts : CaptureFrame(p)
  \/ Disconnect
  \/ Unmount

SpecLifecycle == Init /\ [][NextLifecycle]_vars

\* Playback: the scheduler of one established session under a stream of
\* messages whose audio decodes, and a running clock.  It starts in the state Spec reaches by
\* Start, SessionResolved(1), RemoteOpen(1), and the user, the microphone
\* prompt and the remote end do nothing else but send messages.
InitPlayback ==
  /\ status = "connected"
  /\ isSpeaking = FALSE
  /\ screen = "voice"
  /\ mounted = TRUE
  /\ hasKey = TRUE
  /\ nConn = 1
  /\ sessionRef = 1 /\ audioContextRef = 1 /\ processorRef = 0
  /\ sourceRef = 0 /\ streamRef = 0
  /\ nextStartTimeRef = 0
  /\ activeSourcesRef = {}
  /\ ctxState = [k \in Attempts |-> IF k = 1 THEN "running" ELSE "none"]
  /\ ctxTime = [k \in Attempts |-> 0]
  /\ conn = [k \in Attempts |-> IF k = 1 THEN "resolved" ELSE "none"]
  /\ ws = [k \in Attempts |-> IF k = 1 THEN "open" ELSE "none"]
  /\ mic = [k \in Attempts |-> IF k = 1 THEN "pending" ELSE "none"]
  /\ streamLive = [k \in Attempts |-> FALSE]
  /\ pipe = [k \in Attempts |-> NoPipe]
  /\ units = <<>>
  /\ afterCancel = FALSE
  /\ tornDown = FALSE
  /\ log = {}
  /\ codec = NoSample

NextPlayback ==
  \/ \E m \in WellFormed(MaxDur) : OnMessage(1, m, MaxUnits)
  \/ \E u \in 1..MaxUnits : OnEnded(u)
  \/ Tick(MaxClock)

SpecPlayback == InitPlayback /\ [][NextPlayback]_vars

\* Session: every handler of the component, the messages of the remote end
\* included, over a run so short that every clock still reads what it read
\* when its context was created.
NextSession ==
  \/ Start(RunSessions)
  \/ \E k \in Attempts : SessionResolved(k)
  \/ \E k \in Attempts : ConnectFailed(k)
  \/ \E k \in Attempts : RemoteOpen(k)
  \/ \E k \in Attempts : RemoteClose(k)
  \/ \E k \in Attempts : RemoteError(k)
  \/ \E k \in Attempts, fails \in BOOLEAN : MicGranted(k, fails)
  \/ \E k \in Attempts : MicDenied(k)
  \/ \E p \in Attempts : CaptureFrame(p)
  \/ \E k \in Attempts, m \in Messages(LifeDur) : OnMessage(k, m, LifeUnits)
  \/ \E u \in 1..LifeUnits : OnEnded(u)
  \/ Disconnect
  \/ Unmount

SpecSession == Init /\ [][NextSession]_vars

\* ---- PCM16 conversions ------------------------------------------------------------
Samples == (-(Overdrive * Grid))..(Overdrive * Grid)

\* Math.max(-1, Math.min(1, x)), line 148.
Clamp(n) == IF n < -Grid THEN -Grid ELSE IF n > Grid THEN Grid ELSE n

\* The integer part of a / b, b > 0: a number stored in an Int16Array loses
\* its fraction (rounding toward zero) ...
Truncate(a, b) == IF a >= 0 THEN a \div b ELSE -((-a) \div b)

\* ... and wraps to 16 bits, two's complement.
ToInt16(v) == ((v + 32768) % 65536) - 32768

\* Mutant of FloatToPCM16: one scale, 0x8000, for both signs.
FloatToPCM16OneScale(n) == ToInt16(Truncate(Clamp(n) * NegScale, Grid))

\* onaudioprocess, lines 146-150: pcmData[i] = s < 0 ? s * 0x8000 : s * 0x7FFF
FloatToPCM16(n) ==
  LET s == Clamp(n)
  IN ToInt16(Truncate(IF s < 0 THEN s * NegScale ELSE s * PosScale, Grid))

\* playAudio, lines 193-194: int < 0 ? int / 0x8000 : int / 0x7FFF, as the
\* fraction num / den.
PCM16ToFloat(int) == [num |-> int, den |-> IF int < 0 THEN NegScale ELSE PosScale]

EncodeSample ==
  /\ codec.stage = "sample"
  /\ codec' = [codec EXCEPT !.stage = "encoded", !.pcm = FloatToPCM16(codec.x)]
  /\ UNCHANGED componentVars

DecodeSample ==
  /\ codec.stage = "encoded"
  /\ codec' = [codec EXCEPT !.stage = "decoded",
                            !.num = PCM16ToFloat(codec.pcm).num,
                            !.den = PCM16ToFloat(codec.pcm).den]
  /\ UNCHANGED componentVars

InitCodec ==
  /\ status = "idle"
  /\ isSpeaking = FALSE
  /\ screen = "voice"
  /\ mounted = TRUE
  /\ hasKey = TRUE
  /\ nConn = 0
  /\ sessionRef = 0 /\ audioContextRef = 0 /\ processorRef = 0
  /\ sourceRef = 0 /\ streamRef = 0
  /\ nextStartTimeRef = 0
  /\ activeSourcesRef = {}
  /\ ctxState = [k \in Attempts |-> "none"]
  /\ ctxTime = [k \in Attempts |-> 0]
  /\ conn = [k \in Attempts |-> "none"]
  /\ ws = [k \in Attempts |-> "none"]
  /\ mic = [k \in Attempts |-> "none"]
  /\ streamLive = [k \in Attempts |-> FALSE]
  /\ pipe = [k \in Attempts |-> NoPipe]
  /\ units = <<>>
  /\ afterCancel = FALSE
  /\ tornDown = FALSE
  /\ log = {}
  /\ codec \in {[NoSample EXCEPT !.stage = "sample", !.x = n] : n \in Samples}

NextCodec ==
  \/ EncodeSample
  \/ DecodeSample

SpecCodec == InitCodec /\ [][NextCodec]_vars

\* ---- claims ------------------------------------------------------------------
Now == IF audioContextRef # 0 THEN ctxTime[audioContextRef] ELSE 0
End(u) == units[u].start + units[u].dur

\* A step that enqueues a unit which is still scheduled afterwards.
Enqueues == Len(units') = Len(units) + 1 /\ units'[Len(units')].cur
NewStart == units'[Len(units')].start

\* A unit is playing or scheduled: started or to start on a running context,
\* not stopped, not past its end.
Playing(u) ==
  /\ ~units[u].stopped /\ ~units[u].ended /\ units[u].cur
  /\ ctxState[units[u].ctx] = "running"
  /\ ctxTime[units[u].ctx] < End(u)

\* C1: with no cancelAll in between, no two scheduled units have overlapping
\* [start, start+duration) intervals, whatever the durations of the frames and
\* the clock readings at which they were enqueued.
C1_NoOverlap ==
  \A i, j \in DOMAIN units :
    (i < j /\ units[i].cur /\ units[j].cur) => End(i) <= units[j].start

\* C1 witness: three units of one batch, not all of the same duration, the
\* last one enqueued after the clock had overtaken the cursor.
C1_Witness ==
  \E i \in DOMAIN units :
    /\ i + 2 \in DOMAIN units
    /\ units[i].cur /\ units[i+1].cur /\ units[i+2].cur
    /\ units[i].dur # units[i+1].dur
    /\ units[i+2].late

\* The message handler runs on a message that carries the interrupted flag.
C2_InterruptedHandled ==
  \E k \in Attempts, m \in Messages(LifeDur) : m.interrupted /\ OnMessage(k, m, LifeUnits)

\* C2: after an inbound message carrying the interrupted flag is handled, the
\* active set is empty, every unit that was active is stopped and isSpeaking is
\* false, whatever audio the same message carries.
C2_InterruptStopsAll ==
  [][C2_InterruptedHandled =>
       /\ activeSourcesRef' = {}
       /\ \A u \in activeSourcesRef : units'[u].stopped
       /\ mounted => ~isSpeaking']_vars

\* The transitions of the state machine as listed.
C3_Listed(from, to) ==
  \/ from = "idle" /\ to = "connecting"
  \/ from = "connecting" /\ to = "connected"
  \/ from = "connecting" /\ to = "error"
  \/ from = "connected" /\ to = "disconnected"
  \/ from \in {"error", "disconnected"} /\ to = "connecting"

\* C3: every change of status is one of the listed transitions (a start with a
\* missing credential passes through connecting to error in one handler).
C3_OnlyListedTransitions ==
  [][status' # status =>
       \/ C3_Listed(status, status')
       \/ nConn' # nConn /\ C3_Listed(status, "connecting")
                         /\ C3_Listed("connecting", status')]_vars

\* C4: whenever the status becomes connected, the capture pipeline is opened:
\* the microphone is requested in the same handler.
C4_ConnectedOpensCapture ==
  [][(status' = "connected" /\ status # "connected") =>
       \E k \in Attempts : mic[k] = "none" /\ mic'[k] = "pending"]_vars

\* Full teardown: nothing is playing or scheduled, no microphone track is
\* live, no capture node is routed, no audio context is open, and the host
\* shows the welcome screen.
C5_TornDown ==
  /\ \A u \in DOMAIN units : ~Playing(u)
  /\ \A k \in Attempts : ~streamLive[k] /\ ~pipe[k].connected
  /\ \A k \in Attempts : ctxState[k] # "running"
  /\ screen = "welcome"

\* C5: the end action runs the full teardown from every state: right after it
\* nothing plays, the capture pipeline is closed, the audio output context is
\* released and the host has been notified.
C5_EndRunsFullTeardown == [][Disconnect => C5_TornDown']_vars

\* C6: no invocation of disconnect, first or repeated, from any state, lets an
\* error escape to its caller.
C6_TeardownNeverThrows == "disconnect: threw" \notin log

\* C6 witness: the user ended a session that had been started and the
\* disposal cleanup has run disconnect once more, on the closed context.
C6_Witness ==
  /\ ~mounted /\ tornDown /\ nConn > 0
  /\ ctxState[audioContextRef] = "closed"
  /\ "disconnect: close() rejected" \in log

\* C7: once teardown has run, no capture callback sends or tries to send a
\* frame, and no microphone stream is open.
C7_NothingAfterTeardown ==
  tornDown =>
    /\ \A k \in Attempts : ~streamLive[k]
    /\ "frame: after teardown" \notin log

\* stopAudioPlayback runs while some unit is tracked (one enqueued earlier, or
\* the one carried by the same message).
C8_Cancels ==
  \E m \in WellFormed(MaxDur) :
    /\ m.interrupted
    /\ activeSourcesRef # {} \/ m.audio > 0
    /\ OnMessage(1, m, MaxUnits)

\* C8: a cancelAll called while units are playing or scheduled leaves the
\* active set empty and the cursor at the current reading of the device clock.
C8_CancelEmptiesAndResets ==
  [][C8_Cancels => (activeSourcesRef' = {} /\ nextStartTimeRef' = Now')]_vars

\* C8 witness: two units were stopped before either had ended; the active set
\* is empty and the cursor is at the clock reading.
C8_Witness ==
  /\ afterCancel
  /\ \E u, v \in DOMAIN units :
       u # v /\ units[u].stopped /\ ~units[u].ended
             /\ units[v].stopped /\ ~units[v].ended
  /\ activeSourcesRef = {} /\ nextStartTimeRef = Now /\ Now > 0

\* The first enqueue after a stopAudioPlayback, the clock reading what it read
\* at the cancel (the cursor) or more.
C9_FirstAfterCancel == afterCancel /\ Enqueues /\ Now >= nextStartTimeRef

\* C9 (as stated): the first enqueue after a cancelAll, at any clock reading at
\* or after the cancel, schedules its unit at now + leadTime.
C9_FirstAfterCancelLeads ==
  [][C9_FirstAfterCancel => NewStart = Now + LeadTime]_vars

\* C9 (amended): the first enqueue after a cancelAll schedules its unit at
\* now + leadTime when the clock has advanced since the cancel, and at now,
\* without lead time, when the clock still reads what it read at the cancel.
C9_FirstAfterCancelStart ==
  [][C9_FirstAfterCancel =>
       NewStart = (IF Now > nextStartTimeRef THEN Now + LeadTime ELSE Now)]_vars

\* C9 witness: units were cancelled, and the first unit enqueued since was
\* scheduled after the clock had moved on (it is late and starts at its
\* enqueue time plus the lead).
C9_Witness ==
  \E u \in DOMAIN units :
    /\ u > 1 /\ units[u].cur /\ ~units[u-1].cur /\ units[u-1].stopped
    /\ units[u].late

\* Three units enqueued one after another in one batch, the clock not
\* overtaking the cursor at the second and third enqueue, start at t0, t0+d1,
\* t0+d1+d2.
C10_BackToBack ==
  \A i \in DOMAIN units :
    (/\ i + 2 \in DOMAIN units
     /\ units[i].cur /\ units[i+1].cur /\ units[i+2].cur
     /\ ~units[i+1].late /\ ~units[i+2].late)
    => /\ units[i+1].start = units[i].start + units[i].dur
       /\ units[i+2].start = units[i].start + units[i].dur + units[i+1].dur

\* C10 (as stated): three frames enqueued back to back start at t0, t0+d1,
\* t0+d1+d2, where t0 = max(now, cursor) + leadTime for every cursor and clock
\* value at the first enqueue.
C10_StartsAtMaxPlusLead ==
  [][/\ C10_BackToBack'
     /\ Enqueues =>
          NewStart = (IF nextStartTimeRef < Now THEN Now ELSE nextStartTimeRef)
                     + LeadTime]_vars

\* C10 (amended): three frames enqueued back to back start at t0, t0+d1,
\* t0+d1+d2, where t0 = now + leadTime when the cursor is behind the clock at
\* the first enqueue, and t0 = cursor otherwise.
C10_StartsAtCursorOrLead ==
  [][/\ C10_BackToBack'
     /\ Enqueues =>
          NewStart = (IF nextStartTimeRef < Now THEN Now + LeadTime
                                                ELSE nextStartTimeRef)]_vars

\* C10 witness: three units of different durations in a row, the first one
\* late, the next two enqueued before the clock reached the cursor.
C10_Witness ==
  \E i \in DOMAIN units :
    /\ i + 2 \in DOMAIN units
    /\ units[i].cur /\ units[i+1].cur /\ units[i+2].cur
    /\ units[i].late /\ ~units[i+1].late /\ ~units[i+2].late
    /\ units[i].dur # units[i+1].dur

\* C11: every unit scheduled by an enqueue starts at or after the clock
\* reading at the moment of scheduling and at or after the cursor as it was
\* before the enqueue, and the enqueue leaves the cursor at that start plus the
\* duration of the unit.
C11_StartBoundsAndCursor ==
  [][Enqueues =>
       /\ NewStart >= Now
       /\ NewStart >= nextStartTimeRef
       /\ nextStartTimeRef' = NewStart + units'[Len(units')].dur]_vars

\* C11 witness: a unit enqueued behind another one (at the cursor, ahead of
\* the clock) is followed by a unit enqueued after the clock had overtaken
\* the cursor; the cursor is at the end of the last one.
C11_Witness ==
  \E u \in DOMAIN units :
    /\ u > 2 /\ u = Len(units)
    /\ units[u].cur /\ units[u-1].cur /\ units[u-2].cur
    /\ units[u].late /\ ~units[u-1].late
    /\ units[u-1].start > 0
    /\ nextStartTimeRef = End(u)

\* stopAudioPlayback runs: the message handler runs on a message that carries
\* the interrupted flag and whose audio, if any, decodes.
C12_Cancels ==
  \E k \in Attempts, m \in WellFormed(LifeDur) :
    m.interrupted /\ OnMessage(k, m, LifeUnits)

C13_MidSessionError == \E k \in Attempts : ws[k] = "open" /\ RemoteError(k)

\* C13: an error reported by the remote end in the middle of a session forces
\* the teardown of the session and the error state: afterwards the status is
\* error, the capture pipeline is closed (no live microphone track, no routed
\* processor, so no further frame is sent) and nothing is playing.
C13_RemoteErrorTearsDown ==
  [][C13_MidSessionError =>
       /\ mounted => status' = "error"
       /\ \A k \in Attempts : ~streamLive'[k] /\ ~pipe'[k].connected
       /\ \A u \in DOMAIN units' : ~Playing(u)']_vars

\* The latest connection attempt failed: no credential, the connect promise
\* rejected, or the microphone was refused.
C14_AttemptFailed ==
  /\ nConn > 0
  /\ conn[nConn] \in {"noKey", "rejected"} \/ mic[nConn] = "denied"

\* C14: a failed connection attempt puts the status in error, and the status
\* stays error until the user triggers the start action again: no later
\* callback of the remote end moves it out of error.
C14_ErrorUntilRetry ==
  [][/\ (C14_AttemptFailed' /\ ~C14_AttemptFailed /\ mounted) => status' = "error"
     /\ (C14_AttemptFailed /\ status = "error" /\ status' # "error")
          => nConn' = nConn + 1]_vars

\* The message handler runs on a message whose audio data does not decode.
C15_MalformedHandled(m) ==
  /\ m.audio = -1
  /\ \E k \in Attempts : OnMessage(k, m, LifeUnits)

\* C15: a message whose audio data fails to decode loses that frame only:
\* status, cursor and active set are as the flags of the message alone leave
\* them, no error escapes the handler, and the interrupted and turnComplete
\* flags of the message are still applied.
C15_BadFrameDropped ==
  [][\A m \in Messages(LifeDur) :
       C15_MalformedHandled(m) =>
         /\ "message: playAudio threw" \notin log'
         /\ status' = status
         /\ ~m.interrupted => UNCHANGED <<nextStartTimeRef, activeSourcesRef>>
         /\ m.interrupted => (activeSourcesRef' = {} /\ nextStartTimeRef' = Now')
         /\ (mounted /\ (m.interrupted \/ m.turnComplete)) => ~isSpeaking']_vars

\* C16: the status is never connected while the microphone request issued for
\* the session has been neither granted nor refused.
C16_ConnectingWhilePending ==
  status = "connected" => \A k \in Attempts : mic[k] # "pending"

\* The distance between the sample n / Grid and the fraction num / den, as a
\* multiple of 1 / (Grid * den).
C17_Distance(n, num, den) ==
  LET d == n * den - num * Grid IN IF d < 0 THEN -d ELSE d

\* C17: a sample in [-1, 1], encoded and decoded, comes back within one
\* quantization step, 1/32767, of itself; a sample outside [-1, 1] encodes to
\* what the nearest of the two bounds encodes to, 32767 or -32768.
C17_RoundTripWithinStep ==
  /\ (codec.stage = "decoded" /\ codec.x \in (-Grid)..Grid)
       => C17_Distance(codec.x, codec.num, codec.den) <= (Grid * codec.den) \div PosScale
  /\ (codec.stage = "encoded" /\ codec.x >= Grid) => codec.pcm = 32767
  /\ (codec.stage = "encoded" /\ codec.x <= -Grid) => codec.pcm = -32768

\* C17 witness: a negative sample inside the range whose scaled value has a
\* fraction (it is not decoded to itself) has gone through both conversions.
C17_Witness ==
  /\ codec.stage = "decoded"
  /\ codec.x < 0 /\ codec.x > -Grid
  /\ C17_Distance(codec.x, codec.num, codec.den) > 0

\* The units that were enqueued and have neither been removed by a cancel nor
\* ended.
C18_Live == {u \in DOMAIN units : units[u].cur /\ ~units[u].ended}

\* The ended notification of a unit that a cancel had already removed.
C18_LateEnded == \E u \in DOMAIN units : ~units[u].cur /\ OnEnded(u)

\* C18: the active set holds exactly the units enqueued and neither ended nor
\* cancelled, and the ended notification of a unit already removed by a cancel
\* removes no other unit and raises no error.
C18_ActiveSetExact ==
  [][/\ activeSourcesRef' = C18_Live'
     /\ C18_LateEnded => (activeSourcesRef' = activeSourcesRef /\ log' = log)]_vars

\* C18 witness: the ended notification of a cancelled unit has arrived while
\* a unit enqueued after the cancel is in the active set, and an earlier unit
\* of that batch has left the set by ending naturally.
C18_Witness ==
  \E u, v, w \in DOMAIN units :
    /\ ~units[u].cur /\ units[u].stopped /\ units[u].ended
    /\ units[v].cur /\ units[v].ended /\ ~units[v].stopped
    /\ units[w].cur /\ ~units[w].ended
    /\ activeSourcesRef = {w}

\* The cursor or the active set changes.
C19_Changed ==
  nextStartTimeRef' # nextStartTimeRef \/ activeSourcesRef' # activeSourcesRef

\* An enqueue or a cancelAll (a message with audio or with the interrupted
\* flag), or the ended notification of a unit.
C19_SchedulerStep ==
  \/ \E k \in Attempts, m \in Messages(LifeDur) :
       (m.audio > 0 \/ m.interrupted) /\ OnMessage(k, m, LifeUnits)
  \/ \E u \in 1..LifeUnits : OnEnded(u)

\* User start, user end and disposal, remote open, close and error, a
\* capture frame, and a message that only signals the end of a turn.
C19_OtherEvent ==
  \/ Start(RunSessions)
  \/ Disconnect
  \/ Unmount
  \/ \E k \in Attempts : RemoteOpen(k) \/ RemoteClose(k) \/ RemoteError(k)
  \/ \E p \in Attempts : CaptureFrame(p)
  \/ \E k \in Attempts, m \in Messages(LifeDur) :
       m.audio = 0 /\ ~m.interrupted /\ m.turnComplete /\ OnMessage(k, m, LifeUnits)

C20_FirstOfRetry ==
  /\ nConn >= 2 /\ audioContextRef = nConn
  /\ \E m \in Messages(LifeDur) : OnMessage(nConn, m, LifeUnits)
  /\ Enqueues
  /\ \A u \in DOMAIN units : units[u].ctx # audioContextRef
  /\ nextStartTimeRef > Now

\* C20: the first unit enqueued in a session started by a retry is scheduled
\* at now + leadTime on the clock of the new context, not at a cursor value
\* left over from the previous session.
C20_RetryStartsAtLead ==
  [][C20_FirstOfRetry => NewStart = Now + LeadTime]_vars

\* Capture pipeline p is delivering frames: its processor is routed to the
\* destination of a running context, so its onaudioprocess keeps firing.
C21_Delivering(p) == pipe[p].connected /\ ctxState[pipe[p].ctx] = "running"

\* C21: at most one capture pipeline exists at any time: a retry never opens
\* a second pipeline while the one of the previous session still delivers
\* frames, and no microphone stream but that of the one pipeline is live.
C21_OneCapturePipeline ==
  /\ Cardinality({p \in Attempts : C21_Delivering(p)}) <= 1
  /\ Cardinality({p \in Attempts : streamLive[p]}) <= 1

\* C22: at most one audio output context is open at any time: a retry never
\* creates a context while the one of an earlier attempt is still open.
C22_OneAudioContext ==
  Cardinality({k \in Attempts : ctxState[k] = "running"}) <= 1

\* C23: captured frames are sent only while the status is connected: when the
\* status is disconnected or error, no capture pipeline is delivering frames
\* to a callback that finds a session handle to send them through.
C23_SendsOnlyWhileConnected ==
  status \in {"disconnected", "error"} =>
    ~(sessionRef # 0 /\ \E p \in Attempts : C21_Delivering(p))
=============================================================================
